---------------------------- MODULE Spec2Model ----------------------------
(***************************************************************************)
(* A model of the bins command line front end (src/main.rs): the startup   *)
(* checks of inner, the mode decision of Bins::main, the upload and        *)
(* download handlers, the feature check, the file size limit parser and    *)
(* the collision renaming of downloaded files.                             *)
(*                                                                         *)
(* Strings whose characters matter (the limit string, file names) are      *)
(* sequences of one-character strings.  Option<T> is a record: None, or   *)
(* Some(x) carrying x in its val field.                                    *)
(***************************************************************************)
EXTENDS Integers, Sequences, FiniteSets, TLC

VARIABLES
  cli,          \* CommandLineOptions and the clap matches main.rs reads
  config,       \* the Config fields main.rs reads
  pc,           \* position of the invocation
  result,       \* what the invocation returned: [kind, ...]
  warnings,     \* sequence of warn! lines emitted so far
  events,       \* sequence of the external operations performed so far
  bin,          \* name of the backend in use, or None
  bin_features, \* what bin.features() returned, or None before the call
  files,        \* get_upload_files: the opened files (name, size, content)
  limit,        \* what file_size_limit returned, or None before the call
  processed,    \* inputs: the upload files gathered
  upload_files, \* upload: the files handed to Bin::upload
  dl,           \* download: is_html_url, id, download_info, paste
  dir,          \* names that exist in the output directory
  written       \* paths the download wrote, in order

vars == <<cli, config, pc, result, warnings, events, bin, bin_features, files,
          limit, processed, upload_files, dl, dir, written>>

\* Option<T>
None == [some |-> FALSE]
Some(x) == [some |-> TRUE, val |-> x]
IsSome(o) == o.some

-----------------------------------------------------------------------------
(* Bounds of the model.                                                    *)

\* longest limit string enumerated for the parser
MaxLimitLen == 4
\* largest file size metadata() reports
MaxSize == 3
\* most files named on the command line or held by a paste
MaxFiles == 2

-----------------------------------------------------------------------------
(* Characters and strings.                                                 *)

\* the characters limit strings are drawn from
LimitChars == {"0", "1", "5", ".", "b", "k", "m", "g", "i", "K", "x", " "}

\* "0123456789.".contains(c), line 334
NumberChars == {"0", "1", "2", "3", "4", "5", "6", "7", "8", "9", "."}

\* "bBkKmMgGiI".contains(c), line 339
UnitChars == {"b", "B", "k", "K", "m", "M", "g", "G", "i", "I"}

\* char::is_whitespace, restricted to the characters of the model
IsWhitespace(c) == c = " "

\* the value of a decimal digit
DigitVal(c) ==
  CASE c = "0" -> 0 [] c = "1" -> 1 [] c = "2" -> 2 [] c = "3" -> 3
    [] c = "4" -> 4 [] c = "5" -> 5 [] c = "6" -> 6 [] c = "7" -> 7
    [] c = "8" -> 8 [] c = "9" -> 9

\* the character of a decimal digit
DigitChar(d) ==
  CASE d = 0 -> "0" [] d = 1 -> "1" [] d = 2 -> "2" [] d = 3 -> "3"
    [] d = 4 -> "4" [] d = 5 -> "5" [] d = 6 -> "6" [] d = 7 -> "7"
    [] d = 8 -> "8" [] d = 9 -> "9"

\* char::to_lowercase on the characters of the model
ToLower(c) ==
  CASE c = "B" -> "b" [] c = "K" -> "k" [] c = "M" -> "m" [] c = "G" -> "g"
    [] c = "I" -> "i" [] OTHER -> c

\* String::to_lowercase, line 344
to_lowercase(s) == [j \in 1..Len(s) |-> ToLower(s[j])]

RECURSIVE TrimStart(_)
TrimStart(s) ==
  IF s # <<>> /\ IsWhitespace(Head(s)) THEN TrimStart(Tail(s)) ELSE s

RECURSIVE TrimEnd(_)
TrimEnd(s) ==
  IF s # <<>> /\ IsWhitespace(s[Len(s)])
  THEN TrimEnd(SubSeq(s, 1, Len(s) - 1)) ELSE s

\* str::trim, line 333
trim(s) == TrimEnd(TrimStart(s))

-----------------------------------------------------------------------------
(* Bins::file_size_limit, lines 326-360.                                   *)

\* Err(_) and Ok(v) of Result<Option<u64>>
Invalid == [ok |-> FALSE, val |-> None]
Valid(v) == [ok |-> TRUE, val |-> v]

\* The loop of lines 333-342 from position j on: size and unit are the two
\* character vectors; a number character after a unit character bails
\* (line 336), a character of neither class is skipped.
RECURSIVE ScanLimit(_, _, _, _)
ScanLimit(s, j, size, unit) ==
  IF j > Len(s) THEN [ok |-> TRUE, size |-> size, unit |-> unit]
  ELSE IF s[j] \in NumberChars
       THEN IF unit # <<>>
            THEN [ok |-> FALSE, size |-> size, unit |-> unit]
            ELSE ScanLimit(s, j + 1, Append(size, s[j]), unit)
       ELSE IF s[j] \in UnitChars
            THEN ScanLimit(s, j + 1, size, Append(unit, s[j]))
            ELSE ScanLimit(s, j + 1, size, unit)

\* number of "." in a string of number characters
RECURSIVE CountDots(_)
CountDots(s) ==
  IF s = <<>> THEN 0
  ELSE (IF Head(s) = "." THEN 1 ELSE 0) + CountDots(Tail(s))

\* number of digits after the "." (0 without one)
RECURSIVE FracDigits(_)
FracDigits(s) ==
  IF s = <<>> THEN 0
  ELSE IF Head(s) = "." THEN Len(s) - 1 ELSE FracDigits(Tail(s))

(* Byte counts reach 5 * 2^30 and more, beyond the integers TLC computes   *)
(* with, so a byte count is a decimal numeral: the sequence of its digits, *)
(* most significant first, without leading zeros (<<0>> for zero).         *)

RECURSIVE BigNorm(_)
BigNorm(x) ==
  IF x = <<>> THEN <<0>>
  ELSE IF Head(x) = 0 /\ Len(x) > 1 THEN BigNorm(Tail(x)) ELSE x

\* x + x + carry on digit sequences
RECURSIVE BigDoubleCarry(_, _)
BigDoubleCarry(x, carry) ==
  IF x = <<>> THEN (IF carry = 0 THEN <<>> ELSE <<carry>>)
  ELSE LET d == 2 * x[Len(x)] + carry
       IN  Append(BigDoubleCarry(SubSeq(x, 1, Len(x) - 1), d \div 10), d % 10)

BigDouble(x) == BigNorm(BigDoubleCarry(x, 0))

\* x + carry on digit sequences, carry in 0..1
RECURSIVE BigIncCarry(_, _)
BigIncCarry(x, carry) ==
  IF carry = 0 THEN x
  ELSE IF x = <<>> THEN <<carry>>
  ELSE LET d == x[Len(x)] + carry
       IN  Append(BigIncCarry(SubSeq(x, 1, Len(x) - 1), d \div 10), d % 10)

BigInc(x) == BigNorm(BigIncCarry(x, 1))

\* x * 2^e
RECURSIVE BigTimesPow2(_, _)
BigTimesPow2(x, e) == IF e = 0 THEN x ELSE BigTimesPow2(BigDouble(x), e - 1)

\* x * 10^e
RECURSIVE BigTimesPow10(_, _)
BigTimesPow10(x, e) ==
  IF e = 0 THEN BigNorm(x) ELSE BigTimesPow10(Append(x, 0), e - 1)

\* x * base^exp for the two bases of the unit table
BigTimesPow(x, base, exp) ==
  IF base = 10 THEN BigTimesPow10(x, exp) ELSE BigTimesPow2(x, exp)

\* f64::round of x / 10^d, line 359: the quotient, one more when the first
\* digit dropped is 5 or more (a half rounds away from zero)
BigDivPow10Round(x, d) ==
  IF d = 0 THEN BigNorm(x)
  ELSE LET padded == [j \in 1..d |-> 0] \o x
           n      == Len(padded)
           quot   == BigNorm(SubSeq(padded, 1, n - d))
       IN  IF padded[n - d + 1] >= 5 THEN BigInc(quot) ELSE quot

\* the decimal numeral of a natural number
RECURSIVE NatToBig(_)
NatToBig(n) == IF n < 10 THEN <<n>> ELSE Append(NatToBig(n \div 10), n % 10)

\* x < y on numerals
RECURSIVE BigLexLess(_, _)
BigLexLess(x, y) ==
  IF x = <<>> THEN FALSE
  ELSE IF Head(x) # Head(y) THEN Head(x) < Head(y)
       ELSE BigLexLess(Tail(x), Tail(y))

\* x <= y on numerals, for x < y
BigLessOrEqual(x, y) ==
  IF Len(x) # Len(y) THEN Len(x) < Len(y) ELSE ~BigLexLess(y, x)

BigLess(x, y) ==
  IF Len(x) # Len(y) THEN Len(x) < Len(y) ELSE BigLexLess(x, y)

\* the digits of a string of number characters, the "." left out
RECURSIVE DigitsOf(_)
DigitsOf(s) ==
  IF s = <<>> THEN <<>>
  ELSE IF Head(s) = "." THEN DigitsOf(Tail(s))
       ELSE <<DigitVal(Head(s))>> \o DigitsOf(Tail(s))

\* str::parse::<f64> on a string of digits and dots (line 343): an error
\* without a digit or with two dots, else the decimal num / 10^frac.  "5."
\* and ".5" parse as 5 and 0.5.
ParseF64(s) ==
  IF CountDots(s) > 1 \/ Len(s) - CountDots(s) = 0
  THEN [ok |-> FALSE, num |-> <<0>>, frac |-> 0]
  ELSE [ok |-> TRUE, num |-> BigNorm(DigitsOf(s)), frac |-> FracDigits(s)]

\* UnitMultiplier with the binary units taken for the decimal ones
UnitMultiplierDecimalOnly(unit) ==
  IF unit = <<>> THEN [ok |-> TRUE, base |-> 10, exp |-> 0]
  ELSE CASE unit = <<"b">> -> [ok |-> TRUE, base |-> 10, exp |-> 0]
         [] unit \in {<<"k", "b">>, <<"k", "i", "b">>} ->
              [ok |-> TRUE, base |-> 10, exp |-> 3]
         [] unit \in {<<"m", "b">>, <<"m", "i", "b">>} ->
              [ok |-> TRUE, base |-> 10, exp |-> 6]
         [] unit \in {<<"g", "b">>, <<"g", "i", "b">>} ->
              [ok |-> TRUE, base |-> 10, exp |-> 9]
         [] OTHER -> [ok |-> FALSE, base |-> 10, exp |-> 0]

\* the match of lines 345-358 on the lowercased unit: the multiplier as
\* base^exp, ok FALSE for the bail of line 356
UnitMultiplier(unit) ==
  IF unit = <<>> THEN [ok |-> TRUE, base |-> 10, exp |-> 0]
  ELSE CASE unit = <<"b">> -> [ok |-> TRUE, base |-> 10, exp |-> 0]
         [] unit = <<"k", "b">> -> [ok |-> TRUE, base |-> 10, exp |-> 3]
         [] unit = <<"k", "i", "b">> -> [ok |-> TRUE, base |-> 2, exp |-> 10]
         [] unit = <<"m", "b">> -> [ok |-> TRUE, base |-> 10, exp |-> 6]
         [] unit = <<"m", "i", "b">> -> [ok |-> TRUE, base |-> 2, exp |-> 20]
         [] unit = <<"g", "b">> -> [ok |-> TRUE, base |-> 10, exp |-> 9]
         [] unit = <<"g", "i", "b">> -> [ok |-> TRUE, base |-> 2, exp |-> 30]
         [] OTHER -> [ok |-> FALSE, base |-> 10, exp |-> 0]

\* (size * unit as f64).round() as u64, line 359, computed on decimal
\* numerals.  For every limit string of at most six characters the f64
\* product rounds to the same integer as the exact one, and the products
\* stay below 2^53, far from the saturation of the cast.  The two part only
\* on longer strings, at a tie the f64 product falls short of: "0.5005kb"
\* is 500 in f64 and 501 exactly.
RoundProduct(size, mult) ==
  BigDivPow10Round(BigTimesPow(size.num, mult.base, mult.exp), size.frac)

\* Result<Option<u64>>: Valid(None) without a configured limit (line 329),
\* Valid(Some(n)), or Invalid for either bail and for the parse error.
file_size_limit(s) ==
  IF ~IsSome(s) THEN Valid(None)
  ELSE LET scan == ScanLimit(trim(s.val), 1, <<>>, <<>>)
           size == ParseF64(scan.size)
           mult == UnitMultiplier(to_lowercase(scan.unit))
       IN  IF ~scan.ok THEN Invalid
           ELSE IF ~size.ok THEN Invalid
           ELSE IF ~mult.ok THEN Invalid
           ELSE Valid(Some(RoundProduct(size, mult)))

-----------------------------------------------------------------------------
(* The backends.                                                           *)

\* enum BinFeature, the keys of lines 377-381
Features == {"Private", "Public", "Authed", "Anonymous", "SingleNaming"}

\* The registry built at lines 205-216, a BTreeMap iterated in the order of
\* its keys: three backends stand for the registered ones.  "beta" serves
\* raw content from the host "alpha" serves pages from, and "gamma" uses one
\* host for both.
bins == <<
  [name |-> "alpha", raw_host |-> "raw.alpha", html_host |-> "shared"],
  [name |-> "beta",  raw_host |-> "shared",    html_host |-> "beta"],
  [name |-> "gamma", raw_host |-> "gamma",     html_host |-> "gamma"] >>

BinNames == {bins[j].name : j \in 1..Len(bins)}

\* Iterator::find over self.bins.iter(): the first backend in key order
\* among those that satisfy the test (hits holds their positions)
FindBin(hits) ==
  IF hits = {} THEN None
  ELSE Some(bins[CHOOSE j \in hits : \A k \in hits : j <= k].name)

\* the first backend that uses the host for either kind of URL
FindByEitherHost(host) ==
  FindBin({j \in 1..Len(bins) :
             bins[j].raw_host = host \/ bins[j].html_host = host})

\* line 549
FindByRawHost(host) == FindBin({j \in 1..Len(bins) : bins[j].raw_host = host})
\* line 552
FindByHtmlHost(host) == FindBin({j \in 1..Len(bins) : bins[j].html_host = host})

\* the feature sets Bin::features may return
FeatureSets == {{"Public"}, {"Public", "Anonymous"}, {"Private", "Authed"},
                Features}

\* the orders a HashMap may iterate the five keys in, line 401
FeatureOrders ==
  {o \in [1..5 -> Features] : \A f \in Features : \E j \in 1..5 : o[j] = f}

-----------------------------------------------------------------------------
(* Feature negotiation.                                                    *)

\* Option::map(|x| !x)
MapNot(o) == IF IsSome(o) THEN Some(~o.val) ELSE None

\* Bins::cli_features, lines 375-383
cli_features(c) ==
  [f \in Features |->
     CASE f = "Private"      -> c.private
       [] f = "Public"       -> MapNot(c.private)
       [] f = "Authed"       -> c.authed
       [] f = "Anonymous"    -> MapNot(c.authed)
       [] f = "SingleNaming" -> IF IsSome(c.name) THEN Some(TRUE) ELSE None]

Warning(kind, arg) == [kind |-> kind, arg |-> arg]

\* The loop of lines 401-418 from position j of the iteration order on;
\* warns are the warnings emitted so far.  A mismatch with
\* cancel_on_unsupported set returns at once, Ok under force (line 411) and
\* Err otherwise (line 413).
RECURSIVE CheckFeaturesFrom(_, _, _, _, _, _)
CheckFeaturesFrom(order, j, bin_fs, c, cfg, warns) ==
  IF j > Len(order) THEN [ok |-> TRUE, warns |-> warns]
  ELSE LET feature == order[j]
           status  == cli_features(c)[feature]
       IN  IF status = Some(TRUE) /\ feature \notin bin_fs
           THEN LET warned == IF cfg.warn_on_unsupported = Some(TRUE)
                              THEN Append(warns, Warning("unsupported", feature))
                              ELSE warns
                IN  IF cfg.cancel_on_unsupported = Some(TRUE)
                    THEN IF c.force = Some(TRUE)
                         THEN [ok |-> TRUE,
                               warns |-> Append(warned, Warning("forcing", ""))]
                         ELSE [ok |-> FALSE, warns |-> warned]
                    ELSE CheckFeaturesFrom(order, j + 1, bin_fs, c, cfg, warned)
           ELSE CheckFeaturesFrom(order, j + 1, bin_fs, c, cfg, warns)

\* check_features that never looks at the force flag
check_featuresWithoutForce(order, bin_fs, c, cfg) ==
  CheckFeaturesFrom(order, 1, bin_fs, [c EXCEPT !.force = None], cfg, <<>>)

\* Bins::check_features, lines 398-420
check_features(order, bin_fs, c, cfg) ==
  CheckFeaturesFrom(order, 1, bin_fs, c, cfg, <<>>)

-----------------------------------------------------------------------------
(* The renaming of downloaded files, lines 600-624.                        *)

\* str::split('.'), line 606: the segments between the dots
RECURSIVE SplitDots(_, _)
SplitDots(s, cur) ==
  IF s = <<>> THEN <<cur>>
  ELSE IF Head(s) = "." THEN <<cur>> \o SplitDots(Tail(s), <<>>)
       ELSE SplitDots(Tail(s), Append(cur, Head(s)))

\* [String]::join("."), line 613
RECURSIVE JoinDots(_)
JoinDots(parts) ==
  IF Len(parts) = 1 THEN parts[1]
  ELSE parts[1] \o <<".">> \o JoinDots(Tail(parts))

\* the decimal digits of tries, as format! writes them at line 612
RECURSIVE Decimal(_)
Decimal(n) ==
  IF n < 10 THEN <<DigitChar(n)>>
  ELSE Append(Decimal(n \div 10), DigitChar(n % 10))

\* Renamed with the counter put at the end of the last segment
RenamedLastSegment(download_name, tries) ==
  LET parts == SplitDots(download_name, <<>>)
  IN  JoinDots([parts EXCEPT ![Len(parts)] = @ \o <<"_">> \o Decimal(tries)])

\* lines 606-613: the name with _tries put at the end of the segment before
\* the last one, or of the only segment
Renamed(download_name, tries) ==
  LET parts == SplitDots(download_name, <<>>)
      len   == Len(parts)
      index == IF len = 1 THEN 1 ELSE len - 1
  IN  JoinDots([parts EXCEPT ![index] = @ \o <<"_">> \o Decimal(tries)])

\* the while loop of lines 604-614: the first path that does not exist
RECURSIVE DownloadPath(_, _, _, _)
DownloadPath(existing, download_name, tries, download_path) ==
  IF download_path \in existing
  THEN DownloadPath(existing, download_name, tries + 1,
                    Renamed(download_name, tries + 1))
  ELSE download_path

\* The for loop of lines 600-624 over the downloads from position j on;
\* fail_at is the position whose open or write fails (0: none does).  Each
\* file is created at its path and the path exists from then on.
RECURSIVE WriteDownloads(_, _, _, _, _)
WriteDownloads(downloads, j, existing, paths, fail_at) ==
  IF j > Len(downloads) THEN [ok |-> TRUE, dir |-> existing, written |-> paths]
  ELSE IF j = fail_at THEN [ok |-> FALSE, dir |-> existing, written |-> paths]
  ELSE LET name == downloads[j].name
           path == DownloadPath(existing, name, 0, name)
       IN  WriteDownloads(downloads, j + 1, existing \cup {path},
                          Append(paths, path), fail_at)

-----------------------------------------------------------------------------
(* The invocation.                                                         *)

Running == [kind |-> "running", what |-> ""]
Ok(what) == [kind |-> "ok", what |-> what]
Err(what) == [kind |-> "err", what |-> what]

\* A positional input (matches.values_of("inputs")): its text, what
\* Url::parse makes of it (None when it is no absolute URL, else the URL with
\* its host_str), and what Path::file_name makes of it.
UrlInput(text, host) ==
  [text |-> text, url |-> Some([host |-> host]), file_name |-> None]
PathInput(text, file_name) ==
  [text |-> text, url |-> None, file_name |-> file_name]

UrlRaw == UrlInput("https://raw.alpha/1", Some("raw.alpha"))
UrlShared == UrlInput("https://shared/1", Some("shared"))
UrlHtml == UrlInput("https://beta/1", Some("beta"))
UrlGamma == UrlInput("https://gamma/1", Some("gamma"))
UrlUnknown == UrlInput("https://nowhere/1", Some("nowhere"))
UrlNoHost == UrlInput("data:1", None)
File1 == PathInput("d/f1.txt", Some("f1.txt"))
File2 == PathInput("f2", Some("f2"))
FileDots == PathInput("..", None)

UrlInputs == {UrlRaw, UrlShared, UrlHtml, UrlGamma, UrlUnknown, UrlNoHost}
PathInputs == {File1, File2, FileDots}

\* the sequences over S of length up to n
SeqsUpTo(S, n) == UNION {[1..k -> S] : k \in 0..n}

\* BidirectionalRange::parse_usize over the comma separated parts, line 169:
\* whether the range argument parses
RangeParses(range) == range # "abc"

\* the content of the file a path names, of the message, of standard input
Content(src, of) == [src |-> src, of |-> of]

\* UploadFile::new
UploadFile(name, content) == [name |-> name, content |-> content]

\* the download state before Bins::download runs
NoDownload ==
  [url |-> UrlNoHost, names |-> None, is_html_url |-> FALSE, id |-> None,
   info |-> [kind |-> "none", val |-> <<>>], paste |-> None]

\* names of downloaded files
NameAT == <<"a", ".", "t">>
NameN == <<"n">>
NameABT == <<"a", ".", "b", ".", "t">>
NameA1T == <<"a", "_", "1", ".", "t">>
NameA2T == <<"a", "_", "2", ".", "t">>
NameN1 == <<"n", "_", "1">>
NameAB1T == <<"a", ".", "b", "_", "1", ".", "t">>
NameDotH == <<".", "h">>

DownloadNames == {NameAT, NameN, NameABT, NameDotH}
DirNames == {NameAT, NameA1T, NameA2T, NameN, NameN1, NameAB1T, NameDotH}

\* DownloadedFile: its name and content, the k-th file of the paste
Downloaded(name, k) == [name |-> name, content |-> Content("paste", k)]

\* Paste::Single and Paste::Multiple
Single(f) == [shape |-> "Single", files |-> <<f>>]
Multiple(fs) == [shape |-> "Multiple", files |-> fs]

\* the pastes of up to n files
Pastes(n) ==
  {Single(Downloaded(name, 1)) : name \in DownloadNames}
  \cup {Multiple([j \in 1..Len(fs) |-> Downloaded(fs[j], j)]) :
          fs \in SeqsUpTo(DownloadNames, n)}

\* the pastes Bin::download returns in a whole invocation
FetchedPastes ==
  {Single(Downloaded(NameAT, 1)),
   Multiple(<<Downloaded(NameAT, 1), Downloaded(NameAT, 2)>>),
   Multiple(<<Downloaded(NameN, 1), Downloaded(NameAT, 2)>>)}

\* The state after the command line and the configuration were read (lines
\* 107-223): the options and the configuration are drawn from Clis and
\* Configs, the output directory holds Dirs, nothing has run.
InitWith(Clis, Configs, Dirs) ==
  /\ cli \in Clis
  /\ config \in Configs
  /\ dir \in Dirs
  /\ pc = "inner"
  /\ result = Running
  /\ warnings = <<>>
  /\ events = <<>>
  /\ bin = None
  /\ bin_features = None
  /\ files = <<>>
  /\ limit = None
  /\ processed = <<>>
  /\ upload_files = <<>>
  /\ dl = NoDownload
  /\ written = <<>>

\* return of a handler with a result
Return(r) ==
  /\ result' = r
  /\ pc' = "done"

\* The checks of inner before Bins::main runs: --version (line 127),
\* --list-bins with --bin (line 134), no bin at all (line 139), a range that
\* does not parse (line 168).
inner ==
  /\ pc = "inner"
  /\ IF cli.version THEN Return(Ok("version"))
     ELSE IF cli.list_bins /\ IsSome(cli.bin)
     THEN Return(Err("--bin cannot be used with --list-bins"))
     ELSE IF ~cli.list_bins /\ ~IsSome(config.default_bin) /\ ~IsSome(cli.bin)
     THEN Return(Err("you must specify a bin"))
     ELSE IF IsSome(cli.range) /\ ~RangeParses(cli.range.val)
     THEN Return(Err("error parsing range"))
     ELSE pc' = "main" /\ result' = result
  /\ UNCHANGED <<cli, config, warnings, events, bin, bin_features, files,
                 limit, processed, upload_files, dl, dir, written>>

\* main without the range check of lines 320-322
mainWithoutRangeCheck ==
  /\ pc = "main"
  /\ IF cli.list_bins
     THEN /\ Return(Ok("list_bins"))
          /\ events' = Append(events, "Bins::list_bins")
          /\ dl' = dl
     ELSE IF /\ IsSome(cli.inputs)
             /\ cli.inputs.val # <<>>
             /\ IsSome(cli.inputs.val[1].url)
     THEN /\ pc' = "download"
          /\ result' = result
          /\ events' = Append(events, "Bins::download")
          /\ dl' = [dl EXCEPT !.url = cli.inputs.val[1],
                              !.names = IF Len(cli.inputs.val) > 1
                                        THEN Some(Tail(cli.inputs.val))
                                        ELSE None]
     ELSE /\ pc' = "upload"
          /\ result' = result
          /\ events' = Append(events, "Bins::upload")
          /\ dl' = dl
  /\ UNCHANGED <<cli, config, warnings, bin, bin_features, files, limit,
                 processed, upload_files, dir, written>>

\* Bins::main, lines 308-324
main ==
  /\ pc = "main"
  /\ IF cli.list_bins
     THEN /\ Return(Ok("list_bins"))
          /\ events' = Append(events, "Bins::list_bins")
          /\ dl' = dl
     ELSE IF /\ IsSome(cli.inputs)
             /\ cli.inputs.val # <<>>
             /\ IsSome(cli.inputs.val[1].url)
     THEN /\ pc' = "download"
          /\ result' = result
          /\ events' = Append(events, "Bins::download")
          /\ dl' = [dl EXCEPT !.url = cli.inputs.val[1],
                              !.names = IF Len(cli.inputs.val) > 1
                                        THEN Some(Tail(cli.inputs.val))
                                        ELSE None]
     ELSE IF IsSome(cli.range)
     THEN /\ Return(Err("cannot upload with --range"))
          /\ UNCHANGED <<events, dl>>
     ELSE /\ pc' = "upload"
          /\ result' = result
          /\ events' = Append(events, "Bins::upload")
          /\ dl' = dl
  /\ UNCHANGED <<cli, config, warnings, bin, bin_features, files, limit,
                 processed, upload_files, dir, written>>

-----------------------------------------------------------------------------
(* Upload, lines 507-519.                                                  *)

\* str::trim().is_empty() on a backend name, line 389
IsBlank(name) == name = "" \/ name = " "

\* Bins::bin_name, lines 385-391: Some(name) or None for the error
bin_name ==
  LET chosen == IF IsSome(cli.bin) THEN cli.bin ELSE config.default_bin
  IN  IF IsSome(chosen) /\ IsBlank(chosen.val) THEN None ELSE chosen

\* upload that gathers the inputs before it checks the features
uploadInputsFirst ==
  /\ pc = "upload"
  /\ IF ~IsSome(bin_name)
     THEN Return(Err("no bin was specified")) /\ bin' = bin
     ELSE IF bin_name.val \notin BinNames
     THEN Return(Err("there is no bin called")) /\ bin' = bin
     ELSE pc' = "inputs" /\ result' = result /\ bin' = bin_name
  /\ events' = Append(events, "Bins::bin")
  /\ UNCHANGED <<cli, config, warnings, bin_features, files, limit,
                 processed, upload_files, dl, dir, written>>

\* Bins::bin, lines 393-396, called at line 508
upload ==
  /\ pc = "upload"
  /\ IF ~IsSome(bin_name)
     THEN Return(Err("no bin was specified")) /\ bin' = bin
     ELSE IF bin_name.val \notin BinNames
     THEN Return(Err("there is no bin called")) /\ bin' = bin
     ELSE pc' = "check_features" /\ result' = result /\ bin' = bin_name
  /\ events' = Append(events, "Bins::bin")
  /\ UNCHANGED <<cli, config, warnings, bin_features, files, limit,
                 processed, upload_files, dl, dir, written>>

\* line 509: Bins::check_features on what bin.features() returns, in one of
\* the orders the HashMap iterates in
upload_check_features ==
  /\ pc = "check_features"
  /\ \E bin_fs \in FeatureSets, order \in FeatureOrders :
       LET checked == check_features(order, bin_fs, cli, config)
       IN  /\ bin_features' = Some(bin_fs)
           /\ warnings' = warnings \o checked.warns
           /\ IF checked.ok
              THEN pc' = "inputs" /\ result' = result
              ELSE Return(Err("unsupported feature"))
  /\ events' = Append(events, "Bins::check_features")
  /\ UNCHANGED <<cli, config, bin, files, limit, processed, upload_files,
                 dl, dir, written>>

\* Lines 448-450 from input j on: File::open of each input in turn, stopping
\* at the first that fails to open (the Result collect) and at the first
\* without a file name (the Option collect).  opens[j] tells whether input
\* j opens.
RECURSIVE OpenFrom(_, _, _, _)
OpenFrom(inputs, j, opens, opened) ==
  IF j > Len(inputs) THEN [end |-> "ok", files |-> opened, tried |-> j - 1]
  ELSE IF ~opens[j] THEN [end |-> "io", files |-> opened, tried |-> j]
  ELSE IF ~IsSome(inputs[j].file_name)
       THEN [end |-> "name", files |-> opened, tried |-> j]
       ELSE OpenFrom(inputs, j + 1, opens,
                     Append(opened, [name |-> inputs[j].file_name.val,
                                     path |-> inputs[j].text,
                                     size |-> 0]))

\* n times the event e
Times(n, e) == [j \in 1..n |-> e]

\* Bins::inputs with positional inputs, line 470: get_upload_files up to its
\* call of check_limit, lines 448-457
open_files ==
  /\ pc = "inputs"
  /\ IsSome(cli.inputs)
  /\ \E opens \in [1..Len(cli.inputs.val) -> BOOLEAN] :
       LET got == OpenFrom(cli.inputs.val, 1, opens, <<>>)
       IN  /\ events' = events \o Times(got.tried, "File::open")
           /\ files' = got.files
           /\ IF got.end = "io" THEN Return(Err("io: open"))
              ELSE IF got.end = "name"
              THEN Return(Err("invalid utf-8 file names"))
              ELSE pc' = "check_limit" /\ result' = result
  /\ UNCHANGED <<cli, config, warnings, bin, bin_features, limit, processed,
                 upload_files, dl, dir, written>>

\* The loop of lines 428-443 from file j on.  sizes[j] is the length
\* metadata() reports for file j, bad the file whose metadata() fails (0:
\* none).  A file over the limit warns under force and bails otherwise.
RECURSIVE CheckLimitFrom(_, _, _, _, _, _, _)
CheckLimitFrom(fs, j, sizes, bad, lim, force, warns) ==
  IF j > Len(fs) THEN [end |-> "ok", warns |-> warns, tried |-> j - 1]
  ELSE IF j = bad THEN [end |-> "io", warns |-> warns, tried |-> j]
  ELSE IF BigLess(lim, NatToBig(sizes[j]))
       THEN IF force = Some(TRUE)
            THEN CheckLimitFrom(fs, j + 1, sizes, bad, lim, force,
                                Append(warns, Warning("over_limit", fs[j].path)))
            ELSE [end |-> "over", warns |-> warns, tried |-> j]
       ELSE CheckLimitFrom(fs, j + 1, sizes, bad, lim, force, warns)

\* Bins::check_limit, lines 422-445, called at line 458
check_limit ==
  /\ pc = "check_limit"
  /\ LET parsed == file_size_limit(config.file_size_limit)
     IN  /\ limit' = Some(parsed)
         /\ IF ~parsed.ok
            THEN /\ Return(Err("the file size limit specified in the config is invalid"))
                 /\ events' = Append(events, "Bins::file_size_limit")
                 /\ UNCHANGED <<files, warnings>>
            ELSE IF ~IsSome(parsed.val)
            THEN /\ pc' = "read_files"
                 /\ result' = result
                 /\ events' = Append(events, "Bins::file_size_limit")
                 /\ UNCHANGED <<files, warnings>>
            ELSE \E sizes \in [1..Len(files) -> 0..MaxSize], bad \in 0..Len(files) :
                   LET checked == CheckLimitFrom(files, 1, sizes, bad,
                                                 parsed.val.val, cli.force, <<>>)
                   IN  /\ files' = [j \in 1..Len(files) |->
                                      IF j <= checked.tried /\ j # bad
                                      THEN [files[j] EXCEPT !.size = sizes[j]]
                                      ELSE files[j]]
                       /\ warnings' = warnings \o checked.warns
                       /\ events' = events \o <<"Bins::file_size_limit">>
                                           \o Times(checked.tried, "File::metadata")
                       /\ IF checked.end = "io" THEN Return(Err("io: metadata"))
                          ELSE IF checked.end = "over"
                          THEN Return(Err("over the size limit"))
                          ELSE pc' = "read_files" /\ result' = result
  /\ UNCHANGED <<cli, config, bin, bin_features, processed, upload_files,
                 dl, dir, written>>

\* lines 459-465: read_to_string of each opened file in turn; bad is the
\* file whose read fails (0: none)
read_files ==
  /\ pc = "read_files"
  /\ \E bad \in 0..Len(files) :
       IF bad = 0
       THEN /\ events' = events \o Times(Len(files), "File::read_to_string")
            /\ processed' = [j \in 1..Len(files) |->
                               UploadFile(files[j].name,
                                          Content("file", files[j].path))]
            /\ pc' = "name"
            /\ result' = result
       ELSE /\ events' = events \o Times(bad, "File::read_to_string")
            /\ processed' = processed
            /\ Return(Err("io: read"))
  /\ UNCHANGED <<cli, config, warnings, bin, bin_features, files, limit,
                 upload_files, dl, dir, written>>

\* Bins::inputs without positional inputs, lines 471-477: the message, else
\* get_stdin (lines 644-649), whose read may fail
read_message_or_stdin ==
  /\ pc = "inputs"
  /\ ~IsSome(cli.inputs)
  /\ IF IsSome(cli.message)
     THEN /\ processed' = <<UploadFile("message", Content("message", cli.message.val))>>
          /\ events' = events
          /\ pc' = "name"
          /\ result' = result
     ELSE \E read_ok \in BOOLEAN :
            /\ events' = Append(events, "Stdin::read_to_string")
            /\ IF read_ok
               THEN /\ processed' = <<UploadFile("stdin", Content("stdin", ""))>>
                    /\ pc' = "name"
                    /\ result' = result
               ELSE /\ processed' = processed
                    /\ Return(Err("io: stdin"))
  /\ UNCHANGED <<cli, config, warnings, bin, bin_features, files, limit,
                 upload_files, dl, dir, written>>

\* apply_name that renames the first file however many there are
apply_nameToFirst ==
  /\ pc = "name"
  /\ IF IsSome(cli.name) /\ Len(processed) >= 1
     THEN /\ upload_files' = [processed EXCEPT ![1].name = cli.name.val]
          /\ pc' = "bin_upload"
          /\ result' = result
     ELSE /\ upload_files' = processed
          /\ pc' = "bin_upload"
          /\ result' = result
  /\ UNCHANGED <<cli, config, warnings, events, bin, bin_features, files,
                 limit, processed, dl, dir, written>>

\* lines 479-486 of Bins::inputs: the name override
apply_name ==
  /\ pc = "name"
  /\ IF IsSome(cli.name)
     THEN IF Len(processed) = 1
          THEN /\ upload_files' = <<[processed[1] EXCEPT !.name = cli.name.val]>>
               /\ pc' = "bin_upload"
               /\ result' = result
          ELSE /\ upload_files' = upload_files
               /\ Return(Err("cannot use --name with multiple upload files"))
     ELSE /\ upload_files' = processed
          /\ pc' = "bin_upload"
          /\ result' = result
  /\ UNCHANGED <<cli, config, warnings, events, bin, bin_features, files,
                 limit, processed, dl, dir, written>>

\* line 514: Bin::upload, which fails or returns the URLs; with them lines
\* 515-518 return, through url_output for UrlOutputMode::Raw
bin_upload ==
  /\ pc = "bin_upload"
  /\ events' = Append(events, "Bin::upload")
  /\ \E uploaded \in BOOLEAN :
       IF ~uploaded THEN Return(Err("backend: upload"))
       ELSE IF cli.url_output = Some("Raw")
       THEN pc' = "url_output" /\ result' = result
       ELSE Return(Ok("urls"))
  /\ UNCHANGED <<cli, config, warnings, bin, bin_features, files, limit,
                 processed, upload_files, dl, dir, written>>

\* Bins::url_output, lines 489-505, on the one URL of the upload:
\* id_from_html_url, then format_raw_url and, without it, create_raw_url
url_output ==
  /\ pc = "url_output"
  /\ \E how \in {"no id", "formatted", "created", "not created"} :
       /\ events' = events \o
            (CASE how = "no id" -> <<"Bin::id_from_html_url">>
               [] how = "formatted" ->
                    <<"Bin::id_from_html_url", "Bin::format_raw_url">>
               [] OTHER ->
                    <<"Bin::id_from_html_url", "Bin::format_raw_url",
                      "Bin::create_raw_url">>)
       /\ Return(CASE how = "no id" -> Err("could not parse ID from URL")
                   [] how = "not created" -> Err("backend: create_raw_url")
                   [] OTHER -> Ok("raw urls"))
  /\ UNCHANGED <<cli, config, warnings, bin, bin_features, files, limit,
                 processed, upload_files, dl, dir, written>>

-----------------------------------------------------------------------------
(* Download, lines 544-641.                                                *)

\* lines 545-557: the exclusion of names and range, the host of the URL and
\* the backend that uses it, a raw_host before an html_host
download ==
  /\ pc = "download"
  /\ IF IsSome(dl.names) /\ IsSome(cli.range)
     THEN /\ Return(Err("cannot specify file names with --range"))
          /\ UNCHANGED <<bin, dl>>
     ELSE IF ~IsSome(dl.url.url.val.host)
     THEN /\ Return(Err("url was missing a host"))
          /\ UNCHANGED <<bin, dl>>
     ELSE LET host == dl.url.url.val.host.val
              raw  == FindByRawHost(host)
              html == FindByHtmlHost(host)
          IN  IF IsSome(raw)
              THEN /\ bin' = raw
                   /\ dl' = [dl EXCEPT !.is_html_url = FALSE]
                   /\ pc' = "id"
                   /\ result' = result
              ELSE IF IsSome(html)
              THEN /\ bin' = html
                   /\ dl' = [dl EXCEPT !.is_html_url = TRUE]
                   /\ pc' = "id"
                   /\ result' = result
              ELSE /\ Return(Err("no bin uses the hostname"))
                   /\ UNCHANGED <<bin, dl>>
  /\ UNCHANGED <<cli, config, warnings, events, bin_features, files, limit,
                 processed, upload_files, dir, written>>

\* lines 558-563: the ID, from the function of the host that matched
download_id ==
  /\ pc = "id"
  /\ events' = Append(events, IF dl.is_html_url THEN "Bin::id_from_html_url"
                              ELSE "Bin::id_from_raw_url")
  /\ \E id \in {None, Some("id")} :
       IF IsSome(id)
       THEN /\ dl' = [dl EXCEPT !.id = id]
            /\ pc' = "mode"
            /\ result' = result
       ELSE /\ dl' = dl
            /\ Return(Err("could not parse ID from URL"))
  /\ UNCHANGED <<cli, config, warnings, bin, bin_features, files, limit,
                 processed, upload_files, dir, written>>

\* DownloadInfo::range, ::names and ::empty, lines 580-586
DownloadInfo(range, names) ==
  IF IsSome(range) THEN [kind |-> "range", val |-> <<range.val>>]
  ELSE IF IsSome(names)
       THEN [kind |-> "names",
             val |-> [j \in 1..Len(names.val) |-> names.val[j].text]]
       ELSE [kind |-> "empty", val |-> <<>>]

\* download_mode that goes on to fetch the paste whatever was asked for
download_modeAlwaysFetch ==
  /\ pc = "mode"
  /\ events' = events
  /\ dl' = [dl EXCEPT !.info = DownloadInfo(cli.range, dl.names)]
  /\ pc' = "fetch"
  /\ result' = result
  /\ UNCHANGED <<cli, config, warnings, bin, bin_features, files, limit,
                 processed, upload_files, dir, written>>

\* lines 564-586: the URL output modes and --list-all return what
\* create_html_url or create_raw_url gives; otherwise the selection is built
download_mode ==
  /\ pc = "mode"
  /\ IF IsSome(cli.url_output)
     THEN /\ events' = Append(events, IF cli.url_output.val = "Html"
                                      THEN "Bin::create_html_url"
                                      ELSE "Bin::create_raw_url")
          /\ \E created \in BOOLEAN :
               Return(IF created THEN Ok("urls")
                      ELSE Err("backend: create url"))
          /\ dl' = dl
     ELSE IF cli.list_all = Some(TRUE)
     THEN /\ events' = Append(events, "Bin::create_raw_url")
          /\ \E created \in BOOLEAN :
               Return(IF created THEN Ok("names")
                      ELSE Err("backend: create url"))
          /\ dl' = dl
     ELSE /\ events' = events
          /\ dl' = [dl EXCEPT !.info = DownloadInfo(cli.range, dl.names)]
          /\ pc' = "fetch"
          /\ result' = result
  /\ UNCHANGED <<cli, config, warnings, bin, bin_features, files, limit,
                 processed, upload_files, dir, written>>

\* line 587: Bin::download, which fails or returns a paste
download_fetch ==
  /\ pc = "fetch"
  /\ events' = Append(events, "Bin::download")
  /\ \E got \in {None} \cup {Some(p) : p \in FetchedPastes} :
       IF IsSome(got)
       THEN /\ dl' = [dl EXCEPT !.paste = got]
            /\ pc' = "output"
            /\ result' = result
       ELSE /\ dl' = dl
            /\ Return(Err("backend: download"))
  /\ UNCHANGED <<cli, config, warnings, bin, bin_features, files, limit,
                 processed, upload_files, dir, written>>

\* lines 588-640: with an output directory, which must exist and be one,
\* each file of the paste is written at a path that does not exist yet;
\* without one the paste is returned as JSON or text
download_output ==
  /\ pc = "output"
  /\ IF IsSome(cli.output)
     THEN \E at \in {"nothing", "file", "directory"},
             fail_at \in 0..Len(dl.paste.val.files) :
            IF at = "nothing"
            THEN Return(Err("does not exist")) /\ UNCHANGED <<dir, written, events>>
            ELSE IF at = "file"
            THEN Return(Err("is not a directory")) /\ UNCHANGED <<dir, written, events>>
            ELSE LET wrote == WriteDownloads(dl.paste.val.files, 1, dir, <<>>,
                                             fail_at)
                 IN  /\ dir' = wrote.dir
                     /\ written' = wrote.written
                     /\ events' = events \o Times(Len(wrote.written), "File::write_all")
                     /\ Return(IF wrote.ok THEN Ok("")
                               ELSE Err("could not open or write"))
     ELSE /\ Return(Ok(IF cli.json = Some(TRUE) THEN "paste as json"
                       ELSE "paste as text"))
          /\ UNCHANGED <<dir, written, events>>
  /\ UNCHANGED <<cli, config, warnings, bin, bin_features, files, limit,
                 processed, upload_files, dl>>

-----------------------------------------------------------------------------
(* Specifications.                                                         *)

Next ==
  \/ inner
  \/ main
  \/ upload
  \/ upload_check_features
  \/ open_files
  \/ check_limit
  \/ read_files
  \/ read_message_or_stdin
  \/ apply_name
  \/ bin_upload
  \/ url_output
  \/ download
  \/ download_id
  \/ download_mode
  \/ download_fetch
  \/ download_output

\* Option<bool> as the configuration file and the flags give it
OptionBool == {None, Some(TRUE), Some(FALSE)}
\* a flag that is only ever set (lines 156-166)
OptionFlag == {None, Some(TRUE)}

\* Whole invocations that differ in where they are sent: the flags and
\* inputs of the mode decision and of the download.
DispatchClis ==
  [version : BOOLEAN, list_bins : BOOLEAN,
   bin : {None, Some("alpha"), Some("nope"), Some(" ")},
   inputs : {None, Some(<<>>), Some(<<File1>>), Some(<<File1, File2>>),
             Some(<<UrlRaw, File1>>), Some(<<UrlUnknown, File1>>)}
            \cup {Some(<<u>>) : u \in UrlInputs},
   message : {None},
   range : {None, Some("0,2-4"), Some("abc")},
   name : {None},
   output : {None, Some("out")},
   private : {None}, authed : {None},
   json : OptionFlag,
   force : {None},
   list_all : OptionFlag,
   url_output : {None, Some("Raw"), Some("Html")}]

DispatchConfigs ==
  [default_bin : {None, Some("alpha")},
   file_size_limit : {None},
   warn_on_unsupported : {None},
   cancel_on_unsupported : {None}]

Init == InitWith(DispatchClis, DispatchConfigs, {{NameAT}})

Spec == Init /\ [][Next]_vars

\* Whole invocations that differ in the features asked for and in the safety
\* policy.
FeatureClis ==
  [version : {FALSE}, list_bins : BOOLEAN,
   bin : {Some("alpha")},
   inputs : {None, Some(<<File1>>), Some(<<UrlRaw>>)},
   message : {None},
   range : {None},
   name : {None, Some("new")},
   output : {None},
   private : OptionBool, authed : OptionBool,
   json : {None},
   force : OptionFlag,
   list_all : {None},
   url_output : {None, Some("Raw")}]

FeatureConfigs ==
  [default_bin : {None},
   file_size_limit : {None},
   warn_on_unsupported : OptionBool,
   cancel_on_unsupported : OptionBool]

InitFeatures == InitWith(FeatureClis, FeatureConfigs, {{NameAT}})

SpecFeatures == InitFeatures /\ [][Next]_vars

\* Whole invocations that differ in the upload source, the size limit, the
\* name override and the force flag.
FileClis ==
  [version : {FALSE}, list_bins : BOOLEAN,
   bin : {Some("gamma")},
   inputs : {None, Some(<<UrlRaw>>)}
            \cup {Some(fs) : fs \in SeqsUpTo(PathInputs, MaxFiles)},
   message : {None, Some("hi")},
   range : {None},
   name : {None, Some("new")},
   output : {None},
   private : {None}, authed : {None},
   json : {None},
   force : OptionFlag,
   list_all : {None},
   url_output : {None, Some("Raw")}]

FileConfigs ==
  [default_bin : {None},
   file_size_limit : {None, Some(<<"2">>), Some(<<"k">>)},
   warn_on_unsupported : {None},
   cancel_on_unsupported : {None}]

InitFiles == InitWith(FileClis, FileConfigs, {{NameAT}})

SpecFiles == InitFiles /\ [][Next]_vars

\* an invocation with every option off and one input
PlainCli(is) ==
  [version |-> FALSE, list_bins |-> FALSE, bin |-> Some("gamma"),
   inputs |-> is, message |-> None, range |-> None, name |-> None,
   output |-> None, private |-> None, authed |-> None, json |-> None,
   force |-> None, list_all |-> None, url_output |-> None]

PlainConfig(limit_string) ==
  [default_bin |-> None, file_size_limit |-> limit_string,
   warn_on_unsupported |-> None, cancel_on_unsupported |-> None]

\* the limit strings of up to n characters, and those of section 8
LimitStrings(n) ==
  SeqsUpTo(LimitChars, n)
  \cup {<<"1", ".", "5", "g", "b">>, <<"1", "0", "m", "b">>,
        <<"1", "k", "i", "b">>, <<"1", "0", "x", "x">>}

\* The parser on every limit string: an upload of one file has opened it and
\* is about to call check_limit.
InitLimit ==
  /\ cli = PlainCli(Some(<<File1>>))
  /\ config \in {PlainConfig(l) :
                   l \in {None} \cup {Some(s) : s \in LimitStrings(MaxLimitLen)}}
  /\ dir = {NameAT}
  /\ pc = "check_limit"
  /\ result = Running
  /\ warnings = <<>>
  /\ events = <<"Bins::upload", "Bins::bin", "Bins::check_features", "File::open">>
  /\ bin = Some("gamma")
  /\ bin_features = Some(Features)
  /\ files = <<[name |-> "f1.txt", path |-> "d/f1.txt", size |-> 0]>>
  /\ limit = None
  /\ processed = <<>>
  /\ upload_files = <<>>
  /\ dl = NoDownload
  /\ written = <<>>

NextLimit == check_limit

SpecLimit == InitLimit /\ [][NextLimit]_vars

\* The renaming on every paste and directory: a download into an output
\* directory has fetched the paste and is about to write it.
InitMaterialize ==
  /\ cli = [PlainCli(Some(<<UrlRaw>>)) EXCEPT !.output = Some("out")]
  /\ config = PlainConfig(None)
  /\ dir \in SUBSET DirNames
  /\ pc = "output"
  /\ result = Running
  /\ warnings = <<>>
  /\ events = <<"Bins::download", "Bin::id_from_raw_url", "Bin::download">>
  /\ bin = Some("alpha")
  /\ bin_features = None
  /\ files = <<>>
  /\ limit = None
  /\ processed = <<>>
  /\ upload_files = <<>>
  /\ \E p \in Pastes(MaxFiles) :
       dl = [NoDownload EXCEPT !.url = UrlRaw, !.id = Some("id"),
                               !.paste = Some(p)]
  /\ written = <<>>

NextMaterialize == download_output

SpecMaterialize == InitMaterialize /\ [][NextMaterialize]_vars

-----------------------------------------------------------------------------
(* What the specification says of a limit string, stated apart from the    *)
(* scan of file_size_limit.                                                *)

\* the configured limit string, trimmed; <<>> when none is configured
LimitText ==
  IF IsSome(config.file_size_limit) THEN trim(config.file_size_limit.val)
  ELSE <<>>

\* the longest prefix of digits and dots
RECURSIVE NumericPortion(_)
NumericPortion(s) ==
  IF s = <<>> \/ Head(s) \notin NumberChars THEN <<>>
  ELSE <<Head(s)>> \o NumericPortion(Tail(s))

\* what follows the numeric portion
SuffixPortion(s) == SubSeq(s, Len(NumericPortion(s)) + 1, Len(s))

\* the unit suffixes of section 4.3 with their multipliers base^exp
SpecUnits ==
  {[unit |-> <<>>, base |-> 10, exp |-> 0],
   [unit |-> <<"b">>, base |-> 10, exp |-> 0],
   [unit |-> <<"k", "b">>, base |-> 10, exp |-> 3],
   [unit |-> <<"m", "b">>, base |-> 10, exp |-> 6],
   [unit |-> <<"g", "b">>, base |-> 10, exp |-> 9],
   [unit |-> <<"k", "i", "b">>, base |-> 2, exp |-> 10],
   [unit |-> <<"m", "i", "b">>, base |-> 2, exp |-> 20],
   [unit |-> <<"g", "i", "b">>, base |-> 2, exp |-> 30]}

IsSpecUnit(s) == \E u \in SpecUnits : u.unit = to_lowercase(s)

\* a numeric portion followed by an optional unit
WellFormedLimit(s) ==
  /\ \E j \in 1..Len(NumericPortion(s)) : NumericPortion(s)[j] # "."
  /\ CountDots(NumericPortion(s)) <= 1
  /\ IsSpecUnit(SuffixPortion(s))

\* the malformed strings C2 lists
EmptyNumericPortion(s) == NumericPortion(s) = <<>>
CharacterAfterUnit(s) ==
  /\ SuffixPortion(s) # <<>>
  /\ Head(SuffixPortion(s)) \in UnitChars
  /\ ~IsSpecUnit(SuffixPortion(s))
ForeignCharacter(s) ==
  \E j \in 1..Len(s) : s[j] \notin NumberChars \cup UnitChars
SeveralPoints(s) == CountDots(s) > 1

MalformedLimit(s) ==
  \/ EmptyNumericPortion(s)
  \/ CharacterAfterUnit(s)
  \/ ForeignCharacter(s)
  \/ SeveralPoints(s)

\* x + y + carry on numerals
RECURSIVE BigAddCarry(_, _, _)
BigAddCarry(x, y, carry) ==
  IF x = <<>> /\ y = <<>> THEN (IF carry = 0 THEN <<>> ELSE <<carry>>)
  ELSE LET dx == IF x = <<>> THEN 0 ELSE x[Len(x)]
           dy == IF y = <<>> THEN 0 ELSE y[Len(y)]
           fx == IF x = <<>> THEN <<>> ELSE SubSeq(x, 1, Len(x) - 1)
           fy == IF y = <<>> THEN <<>> ELSE SubSeq(y, 1, Len(y) - 1)
           d  == dx + dy + carry
       IN  Append(BigAddCarry(fx, fy, d \div 10), d % 10)

BigAdd(x, y) == BigNorm(BigAddCarry(x, y, 0))

\* r is num * base^exp / 10^frac rounded to the nearest integer, a half
\* upwards:  2 r 10^frac <= 2 num base^exp + 10^frac < 2 (r + 1) 10^frac
IsRounded(r, num, frac, base, exp) ==
  LET twice == BigAdd(BigDouble(BigTimesPow(num, base, exp)),
                      BigTimesPow10(<<1>>, frac))
      low   == BigTimesPow10(BigDouble(r), frac)
      high  == BigTimesPow10(BigDouble(BigInc(r)), frac)
  IN  ~BigLess(twice, low) /\ BigLess(twice, high)

\* the byte count section 4.3 gives a well-formed limit string
IsSpecLimit(r, s) ==
  \E u \in SpecUnits :
     /\ u.unit = to_lowercase(SuffixPortion(s))
     /\ IsRounded(r, BigNorm(DigitsOf(NumericPortion(s))),
                  FracDigits(NumericPortion(s)), u.base, u.exp)

\* check_limit has called file_size_limit
LimitParsed == IsSome(limit)

(* C2: file_size_limit fails for every malformed limit string: an empty    *)
(* numeric portion, a character after the unit suffix has begun, a         *)
(* character that belongs neither to the number nor to a unit, or more     *)
(* than one decimal point.                                                 *)
C2_MalformedLimitFails ==
  (LimitParsed /\ IsSome(config.file_size_limit) /\ MalformedLimit(LimitText))
    => ~limit.val.ok

-----------------------------------------------------------------------------
(* What section 4.6 says of the written paths, stated apart from the loop  *)
(* of download.                                                            *)

\* the position of the last "." of a name, 0 without one
RECURSIVE LastDot(_)
LastDot(s) ==
  IF s = <<>> THEN 0
  ELSE IF s[Len(s)] = "." THEN Len(s) ELSE LastDot(SubSeq(s, 1, Len(s) - 1))

\* the name with _k before its final extension segment, or at its end
WithCounter(name, k) ==
  IF LastDot(name) = 0 THEN name \o <<"_">> \o Decimal(k)
  ELSE SubSeq(name, 1, LastDot(name) - 1) \o <<"_">> \o Decimal(k)
       \o SubSeq(name, LastDot(name), Len(name))

\* path is where section 4.6 puts a file called name when the paths of used
\* exist
IsFreshPath(path, name, used) ==
  /\ path \notin used
  /\ name \notin used => path = name
  /\ name \in used =>
       \E k \in 1..(Cardinality(used) + 1) :
          /\ path = WithCounter(name, k)
          /\ \A smaller \in 1..(k - 1) : WithCounter(name, smaller) \in used

\* the paths written so far, as a set
PathsBefore(paths, j) == {paths[i] : i \in 1..(j - 1)}

(* C4: a download into a directory never writes to a path that exists:     *)
(* each file goes to its name when that is unused and else to the name     *)
(* with _k before its final extension segment (at the end without one)     *)
(* for the smallest k from 1 whose path is unused, files written earlier   *)
(* in the same download counted as existing.                               *)
C4_NoOverwrite ==
  [][(pc = "output" /\ pc' = "done" /\ IsSome(cli.output))
       => \A j \in 1..Len(written') :
             IsFreshPath(written'[j], dl.paste.val.files[j].name,
                         dir \cup PathsBefore(written', j))]_vars

\* one paste held a.t twice and the directory neither: they were written as
\* a.t and a_1.t
C4_Witness ==
  /\ pc = "done"
  /\ result = Ok("")
  /\ Len(dl.paste.val.files) = 2
  /\ dl.paste.val.files[1].name = NameAT
  /\ dl.paste.val.files[2].name = NameAT
  /\ written = <<NameAT, NameA1T>>
  /\ dir = {NameAT, NameA1T}

-----------------------------------------------------------------------------
(* Claims about whole invocations.                                         *)

\* the operation e was performed
Has(e) == \E j \in 1..Len(events) : events[j] = e

\* how often the operation e was performed
Count(e) == Cardinality({j \in 1..Len(events) : events[j] = e})

\* the warning w was emitted
Warned(w) == \E j \in 1..Len(warnings) : warnings[j] = w

\* the features section 4.2 takes as requested true
Requested ==
  {f \in Features :
     \/ f = "Private" /\ cli.private = Some(TRUE)
     \/ f = "Public" /\ cli.private = Some(FALSE)
     \/ f = "Authed" /\ cli.authed = Some(TRUE)
     \/ f = "Anonymous" /\ cli.authed = Some(FALSE)
     \/ f = "SingleNaming" /\ IsSome(cli.name)}

\* check_features has run, and the features requested that the backend
\* lacks
FeaturesChecked == IsSome(bin_features)
Unsupported == Requested \ bin_features.val

Cancelled == result = Err("unsupported feature")

(* C1: when a feature requested true is absent from the backend's feature  *)
(* set and cancel_on_unsupported is set, check_features fails with the     *)
(* unsupported feature error without the force flag; with the force flag   *)
(* it succeeds and a warning is emitted.                                   *)
C1_CancelUnlessForced ==
  (/\ FeaturesChecked
   /\ Unsupported # {}
   /\ config.cancel_on_unsupported = Some(TRUE))
    => IF cli.force = Some(TRUE)
       THEN ~Cancelled /\ Warned(Warning("forcing", ""))
       ELSE Cancelled /\ pc = "done"

\* Private was asked of a backend that has only Public, under
\* cancel_on_unsupported and the force flag: the check passed with the
\* warning and the upload went on to its inputs
C1_Witness ==
  /\ cli.private = Some(TRUE)
  /\ bin_features = Some({"Public"})
  /\ config.cancel_on_unsupported = Some(TRUE)
  /\ cli.force = Some(TRUE)
  /\ Warned(Warning("forcing", ""))
  /\ Has("Bin::upload")

\* the input and output operations of an upload
UploadIO ==
  {"File::open", "File::metadata", "File::read_to_string",
   "Stdin::read_to_string", "Bin::upload"}

\* position of the first operation of S in events, Len(events) + 1 without
FirstOf(S) ==
  LET at == {j \in 1..Len(events) : events[j] \in S}
  IN  IF at = {} THEN Len(events) + 1
      ELSE CHOOSE j \in at : \A k \in at : j <= k

(* C10: in Upload mode the feature check runs exactly once and before any  *)
(* upload I/O: no file is opened, standard input is not read and           *)
(* Bin::upload is not called until check_features has returned success,    *)
(* and an upload aborted for an unsupported feature has done none of them. *)
C10_FeatureCheckBeforeIO ==
  /\ Count("Bins::check_features") <= 1
  /\ (\E e \in UploadIO : Has(e))
       => /\ Count("Bins::check_features") = 1
          /\ FirstOf({"Bins::check_features"}) < FirstOf(UploadIO)
          /\ ~Cancelled
  /\ Cancelled => \A e \in UploadIO : ~Has(e)
  /\ (Has("Bins::upload") /\ result.kind = "ok")
       => Count("Bins::check_features") = 1

\* an upload whose feature check passed read standard input and called
\* Bin::upload
C10_Witness ==
  /\ Has("Bins::check_features")
  /\ Unsupported # {}
  /\ Has("Stdin::read_to_string")
  /\ Has("Bin::upload")
  /\ result = Ok("urls")

\* the value of a numeral
RECURSIVE BigToNat(_)
BigToNat(x) ==
  IF x = <<>> THEN 0 ELSE 10 * BigToNat(SubSeq(x, 1, Len(x) - 1)) + x[Len(x)]

\* check_limit has run with a configured limit, and the limit in bytes
LimitChecked == IsSome(limit) /\ limit.val.ok /\ IsSome(limit.val.val)
LimitBytes == BigToNat(limit.val.val.val)

\* the files metadata() found over the limit
OverLimit == {j \in 1..Len(files) : files[j].size > LimitBytes}

TooLarge == result = Err("over the size limit")

(* C7: with a size limit and input from file paths, a file strictly larger *)
(* than the limit fails the upload without the force flag, before any file *)
(* content is read and before Bin::upload; with the force flag it only     *)
(* warns and the upload goes on; a file as large as the limit, and any     *)
(* file without a limit, passes without error or warning.                  *)
C7_SizeGate ==
  /\ (LimitChecked /\ OverLimit # {} /\ cli.force # Some(TRUE))
       => /\ TooLarge
          /\ ~Has("File::read_to_string")
          /\ ~Has("Bin::upload")
  /\ (LimitChecked /\ OverLimit # {} /\ cli.force = Some(TRUE))
       => /\ ~TooLarge
          /\ \A j \in OverLimit : Warned(Warning("over_limit", files[j].path))
          /\ result = Running => pc \in {"read_files", "name", "bin_upload",
                                         "url_output"}
  /\ ((LimitChecked /\ OverLimit = {})
        \/ (IsSome(limit) /\ limit.val.ok /\ ~IsSome(limit.val.val)))
       => /\ ~TooLarge
          /\ \A j \in 1..Len(warnings) : warnings[j].kind # "over_limit"

\* under the limit 2 the first file had 2 bytes and passed, the second had 3
\* and failed the upload
C7_Witness ==
  /\ LimitChecked
  /\ LimitBytes = 2
  /\ Len(files) = 2
  /\ files[1].size = 2
  /\ files[2].size = 3
  /\ Count("File::metadata") = 2
  /\ TooLarge

\* Bins::inputs has gathered the upload files and gone past the override
Gathered == Len(processed) >= 1 /\ pc # "name"

NameError == result = Err("cannot use --name with multiple upload files")

(* C8: a name override with exactly one upload file replaces the name of   *)
(* that file and leaves its content; with more than one file the upload    *)
(* fails and Bin::upload is never called; without an override the names    *)
(* stay as they are.                                                       *)
C8_NameOverride ==
  /\ (Gathered /\ IsSome(cli.name) /\ Len(processed) = 1)
       => /\ upload_files = <<UploadFile(cli.name.val, processed[1].content)>>
          /\ ~NameError
  /\ (Gathered /\ IsSome(cli.name) /\ Len(processed) > 1)
       => NameError /\ ~Has("Bin::upload")
  /\ (Gathered /\ ~IsSome(cli.name))
       => /\ upload_files = processed
          /\ ~NameError
          /\ IsSome(cli.inputs)
               => \A j \in 1..Len(upload_files) :
                     upload_files[j].name = cli.inputs.val[j].file_name.val
  /\ Has("Bin::upload") => Len(upload_files) = Len(processed)

\* one file was read and uploaded under the name of the override
C8_Witness ==
  /\ cli.name = Some("new")
  /\ processed = <<UploadFile("f1.txt", Content("file", "d/f1.txt"))>>
  /\ upload_files = <<UploadFile("new", Content("file", "d/f1.txt"))>>
  /\ Has("Bin::upload")

\* the first positional input parses as an absolute URL
FirstIsUrl ==
  IsSome(cli.inputs) /\ cli.inputs.val # <<>> /\ IsSome(cli.inputs.val[1].url)

\* the host of that URL, None without one
UrlHost == cli.inputs.val[1].url.val.host

\* the backends that use a host for raw and for html URLs
RawBackends(host) == {j \in 1..Len(bins) : bins[j].raw_host = host}
HtmlBackends(host) == {j \in 1..Len(bins) : bins[j].html_host = host}

\* the operations of a backend
BinOperations ==
  {"Bin::id_from_raw_url", "Bin::id_from_html_url", "Bin::create_raw_url",
   "Bin::create_html_url", "Bin::format_raw_url", "Bin::download",
   "Bin::upload"}

\* Bins::download has looked the host of the URL up
Routed ==
  /\ Has("Bins::download")
  /\ pc # "download"
  /\ IsSome(UrlHost)
  /\ ~(Len(cli.inputs.val) > 1 /\ IsSome(cli.range))

UnknownHost == result = Err("no bin uses the hostname")

(* C5: for a URL whose host is some backend's raw_host, download selects a *)
(* backend with that raw_host and extracts the ID with id_from_raw_url,    *)
(* also when the host is some backend's html_host; id_from_html_url is     *)
(* used only when no raw_host matches and an html_host does; a host of no  *)
(* backend fails as unknown and no backend operation is called.            *)
C5_DownloadRouting ==
  /\ (Routed /\ RawBackends(UrlHost.val) # {})
       => /\ IsSome(bin)
          /\ \E j \in RawBackends(UrlHost.val) : bins[j].name = bin.val
          /\ ~dl.is_html_url
          /\ ~Has("Bin::id_from_html_url")
          /\ pc # "id" => Has("Bin::id_from_raw_url")
  /\ (Has("Bins::download") /\ Has("Bin::id_from_html_url"))
       => /\ RawBackends(UrlHost.val) = {}
          /\ \E j \in HtmlBackends(UrlHost.val) : bins[j].name = bin.val
          /\ ~Has("Bin::id_from_raw_url")
  /\ (Routed /\ RawBackends(UrlHost.val) = {} /\ HtmlBackends(UrlHost.val) = {})
       => /\ UnknownHost
          /\ \A e \in BinOperations : ~Has(e)
  /\ UnknownHost => \A e \in BinOperations : ~Has(e)

\* the host "shared" is the raw_host of beta and the html_host of alpha:
\* beta was selected and the ID taken with id_from_raw_url
C5_Witness ==
  /\ FirstIsUrl
  /\ UrlHost = Some("shared")
  /\ bin = Some("beta")
  /\ Has("Bin::id_from_raw_url")
  /\ IsSome(dl.id)

\* the mode the invocation entered; an upload refused for its range at line
\* 321 has entered Upload
EnteredDownload == Has("Bins::download")
EnteredUpload ==
  Has("Bins::upload") \/ result = Err("cannot upload with --range")

\* an invocation that asks for more than the version and whose arguments
\* parse
RunsMain ==
  /\ ~cli.version
  /\ IsSome(cli.range) => RangeParses(cli.range.val)

(* C6: when list-backends is requested the invocation only enumerates the  *)
(* backend names; otherwise an invocation whose first positional input     *)
(* parses as an absolute URL enters Download, with the remaining inputs as *)
(* the file name filter, and every other one enters Upload; Download and   *)
(* Upload are never both entered.                                          *)
C6_ModeDecision ==
  /\ cli.list_bins => \A j \in 1..Len(events) : events[j] = "Bins::list_bins"
  /\ ~(EnteredDownload /\ EnteredUpload)
  /\ (RunsMain /\ pc = "done" /\ ~cli.list_bins /\ FirstIsUrl)
       => /\ EnteredDownload
          /\ dl.names = IF Len(cli.inputs.val) > 1
                        THEN Some(Tail(cli.inputs.val)) ELSE None
  /\ (RunsMain /\ pc = "done" /\ ~cli.list_bins /\ ~FirstIsUrl)
       => EnteredUpload

\* Bins::main has made the mode decision
Decided == pc \notin {"inner", "main"} /\ (Len(events) > 0 \/ EnteredUpload)

(* C9: an invocation with a range that enters Upload fails before the      *)
(* backend is resolved, the features are checked or any input is read; a   *)
(* Download with a range and file names fails before any backend           *)
(* operation; otherwise Bin::download gets the range if one was given,     *)
(* else the names if given, else the empty selection.                      *)
C9_RangeExclusive ==
  /\ (Decided /\ IsSome(cli.range) /\ ~cli.list_bins /\ ~FirstIsUrl)
       => /\ result = Err("cannot upload with --range")
          /\ events = <<>>
          /\ ~IsSome(bin) /\ ~IsSome(bin_features)
  /\ (EnteredDownload /\ pc # "download" /\ IsSome(cli.range)
        /\ Len(cli.inputs.val) > 1)
       => /\ result = Err("cannot specify file names with --range")
          /\ events = <<"Bins::download">>
  /\ Has("Bin::download")
       => IF IsSome(cli.range)
          THEN dl.info = [kind |-> "range", val |-> <<cli.range.val>>]
          ELSE IF Len(cli.inputs.val) > 1
          THEN /\ dl.info.kind = "names"
               /\ dl.info.val = [j \in 1..(Len(cli.inputs.val) - 1) |->
                                   cli.inputs.val[j + 1].text]
          ELSE dl.info = [kind |-> "empty", val |-> <<>>]

\* an upload with a range was refused before anything ran
C9_Witness ==
  /\ IsSome(cli.range)
  /\ cli.inputs = Some(<<File1>>)
  /\ result = Err("cannot upload with --range")
  /\ events = <<>>

\* how often the warning w was emitted
WarnCount(w) == Cardinality({j \in 1..Len(warnings) : warnings[j] = w})

\* the warnings of feature negotiation
FeatureWarnings ==
  {j \in 1..Len(warnings) : warnings[j].kind \in {"unsupported", "forcing"}}

(* C11: in every check_features run that does not abort, with              *)
(* warn_on_unsupported set, exactly one "does not support" warning is      *)
(* emitted for each feature requested true that the backend lacks, and     *)
(* none for any other feature, also when cancel_on_unsupported is          *)
(* overridden by force; with neither warn_on_unsupported nor               *)
(* cancel_on_unsupported set there is no warning and no error.             *)
C11_WarningPerMismatch ==
  /\ (FeaturesChecked /\ ~Cancelled
        /\ config.warn_on_unsupported = Some(TRUE))
       => \A f \in Features :
            WarnCount(Warning("unsupported", f)) =
              IF f \in Unsupported THEN 1 ELSE 0
  /\ (FeaturesChecked
        /\ config.warn_on_unsupported # Some(TRUE)
        /\ config.cancel_on_unsupported # Some(TRUE))
       => FeatureWarnings = {} /\ ~Cancelled

\* the operations of a download that construct URLs from the ID
CreateUrl == {"Bin::create_raw_url", "Bin::create_html_url"}

\* the download got as far as an ID: the backend was found by the host and
\* the ID was extracted from the URL
IdExtracted == EnteredDownload /\ IsSome(dl.id) /\ pc \notin {"id", "mode"}

\* no paste was fetched and no file was written
NothingDownloaded ==
  /\ ~Has("Bin::download")
  /\ ~Has("File::write_all")
  /\ ~IsSome(dl.paste)
  /\ written = <<>>
  /\ dir = {NameAT}

(* C12: a Download with a URL output mode never calls Bin::download and     *)
(* writes no file, and once the ID is extracted it constructs the URLs of   *)
(* that mode from it and returns them, or the error of constructing them,   *)
(* also with list-all, a range, names or an output directory; a Download    *)
(* with list-all and no URL output mode never calls Bin::download either    *)
(* and returns only the file names.                                         *)
C12_UrlsWithoutDownload ==
  /\ (EnteredDownload /\ IsSome(cli.url_output))
       => /\ NothingDownloaded
          /\ IdExtracted
               => /\ pc = "done"
                  /\ result \in {Ok("urls"), Err("backend: create url")}
                  /\ Count(IF cli.url_output.val = "Html"
                           THEN "Bin::create_html_url"
                           ELSE "Bin::create_raw_url") = 1
                  /\ Count("Bin::create_raw_url")
                       + Count("Bin::create_html_url") = 1
  /\ (EnteredDownload /\ ~IsSome(cli.url_output)
        /\ cli.list_all = Some(TRUE))
       => /\ NothingDownloaded
          /\ IdExtracted
               => /\ pc = "done"
                  /\ result \in {Ok("names"), Err("backend: create url")}
                  /\ Count("Bin::create_raw_url") = 1
                  /\ ~Has("Bin::create_html_url")

\* the HTML URLs of a paste were returned although list-all, a range and an
\* output directory were given with the URL
C12_Witness ==
  /\ cli.url_output = Some("Html")
  /\ cli.list_all = Some(TRUE)
  /\ IsSome(cli.range)
  /\ IsSome(cli.output)
  /\ IdExtracted
  /\ result = Ok("urls")
  /\ events = <<"Bins::download", "Bin::id_from_raw_url",
                "Bin::create_html_url">>

\* the operations that enter a mode
ModeEntry == {"Bins::upload", "Bins::download"}

\* no size was looked at and nothing was said or refused for a size
NoSizeCheck ==
  /\ ~Has("File::metadata")
  /\ \A j \in 1..Len(warnings) : warnings[j].kind # "over_limit"
  /\ result # Err("over the size limit")
  /\ result # Err("the file size limit specified in the config is invalid")

(* C13: in an invocation with a configured file size limit that enters a    *)
(* mode, the limit string has been parsed exactly once and before the mode  *)
(* was entered, whether the mode is Download or Upload and whether the      *)
(* upload comes from file paths, the message or standard input; without a   *)
(* configured limit the parser yields no limit and no size check is made.   *)
C13_LimitParsedAtStartup ==
  /\ (IsSome(config.file_size_limit) /\ (\E e \in ModeEntry : Has(e)))
       => /\ Count("Bins::file_size_limit") = 1
          /\ FirstOf({"Bins::file_size_limit"}) < FirstOf(ModeEntry)
  /\ ~IsSome(config.file_size_limit)
       => /\ NoSizeCheck
          /\ IsSome(limit) => limit.val.ok /\ ~IsSome(limit.val.val)

=============================================================================
